---- MODULE Spec2Model ----
(***************************************************************************)
(* Model of the obsidian-toggle editor extension.                          *)
(*                                                                         *)
(*  - src/editor_extension.ts (lines 379-986, the current extension):      *)
(*    the stack scanner and difference array, findMatchingEndLine,         *)
(*    notionFoldService and the decoration builder of togglePlugin.        *)
(*  - src/togglePlugin.ts (lines 1-177): the foldState StateField, the     *)
(*    ToggleWidget click handler and the flat decoration builder.          *)
(*                                                                         *)
(* A document is a sequence of lines, a line a sequence of one-character   *)
(* strings; offsets are CodeMirror offsets (every line break counts 1).    *)
(***************************************************************************)
EXTENDS Integers, Sequences, FiniteSets, TLC

VARIABLES
    doc,          \* editor document: Seq of lines, each a Seq of characters
    sel,          \* state.selection.ranges: set of [from, to, head]
    folded,       \* foldedRanges(state): set of <<from, to>> kept by the host
    pc,           \* position of the modelled pass
    validRanges,  \* validRanges of the last buildDecorations pass
    levels,       \* currentLevel per line of the last pass
    decos,        \* sorted DecoSpec list handed to the RangeSetBuilder
    foldRes,      \* last notionFoldService answer: [line, res]
    foldState,    \* togglePlugin.ts foldState field: set of offsets
    widgets,      \* togglePlugin.ts decorations: set of [from, isFolded]
    hist,         \* the last two transactions of the togglePlugin.ts editor
    clipboard,    \* text last given to navigator.clipboard.writeText
    upd,          \* what the last togglePlugin.update call saw and decided
    visits        \* doc.line(i) reads per line during the last build pass

vars == <<doc, sel, folded, pc, validRanges, levels, decos, foldRes,
          foldState, widgets, hist, clipboard, upd, visits>>

----------------------------------------------------------------------------
(* Bounds                                                                  *)

MaxLines == 4

MaxFoldLines == 3

----------------------------------------------------------------------------
(* Text helpers: String.prototype.startsWith / trimStart / slice           *)

IsWs(c) == c \in {" ", "\t"}

StartsWith(t, p) ==
    /\ Len(t) >= Len(p)
    /\ \A k \in 1..Len(p) : t[k] = p[k]

RECURSIVE LeadingWs(_)
LeadingWs(t) ==
    IF t = <<>> THEN 0
    ELSE IF IsWs(Head(t)) THEN 1 + LeadingWs(Tail(t))
    ELSE 0

Slice(t, n) == SubSeq(t, n + 1, Len(t))

NoTrim(t) == t

TrimStart(t) == Slice(t, LeadingWs(t))

RECURSIVE TrailingWs(_)
TrailingWs(t) ==
    IF t = <<>> THEN 0
    ELSE IF IsWs(t[Len(t)]) THEN 1 + TrailingWs(SubSeq(t, 1, Len(t) - 1))
    ELSE 0

RECURSIVE LeadingHashes(_)
LeadingHashes(t) ==
    IF t = <<>> THEN 0
    ELSE IF Head(t) = "#" THEN 1 + LeadingHashes(Tail(t))
    ELSE 0

START_TAG == <<"|", ">", " ">>

END_TAG == <<"<", "|">>

\* the heading regex of the fold service on the untrimmed text (one or more
\* hashes at column 0, then whitespace): the heading level, 0 when no match
HeaderLevel(t) ==
    LET h == LeadingHashes(t)
    IN  IF h >= 1 /\ Len(t) > h /\ IsWs(t[h + 1]) THEN h ELSE 0

\* the title regex on the text after START_TAG (optional whitespace, one to
\* six hashes, whitespace): [level, len] of the match, level 0 when there is
\* none (the match index is always 0)
TitleHeaderMatch(t) ==
    LET w == LeadingWs(t)
        h == LeadingHashes(Slice(t, w))
    IN  IF h >= 1 /\ h <= 6 /\ Len(t) > w + h /\ IsWs(t[w + h + 1])
        THEN [level |-> h, len |-> w + h + 1]
        ELSE [level |-> 0, len |-> 0]

\* the backtick character (written as a token: the lexer reserves the glyph)
Bq == "bq"

BACKTICKS == <<Bq, Bq, Bq>>

TILDES == <<"~", "~", "~">>

IsFenceLine(t) == StartsWith(t, BACKTICKS) \/ StartsWith(t, TILDES)

\* the fence-toggle regex: a fence prefix, anything, then a closing angle
\* bracket followed only by whitespace
IsCodeBlockToggle(t) ==
    LET n == Len(t) - TrailingWs(t)
    IN  IsFenceLine(t) /\ n >= 4 /\ t[n] = ">"

----------------------------------------------------------------------------
(* Text buffer: doc.line(i).from / .to, doc.length, doc.lineAt(pos)        *)

RECURSIVE LineFrom(_, _)
LineFrom(d, i) ==
    IF i <= 1 THEN 0 ELSE LineFrom(d, i - 1) + Len(d[i - 1]) + 1

LineTo(d, i) == LineFrom(d, i) + Len(d[i])

DocLength(d) == LineTo(d, Len(d))

LineAt(d, pos) ==
    CHOOSE i \in 1..Len(d) : LineFrom(d, i) <= pos /\ pos <= LineTo(d, i)

----------------------------------------------------------------------------
(* Stack scanner of buildDecorations                                       *)

PopFirst(stack) == 1

\* openStack.pop(): the index of the element taken off the stack
PopIndex(stack) == Len(stack)

RemoveAt(s, k) == SubSeq(s, 1, k - 1) \o SubSeq(s, k + 1, Len(s))

\* the scanner pass reads doc.line(i).text as it is
ScanText(t) == NoTrim(t)

RECURSIVE ScanFrom(_, _, _, _, _)
ScanFrom(d, i, openStack, ranges, orphans) ==
    IF i > Len(d)
    THEN [validRanges |-> ranges, orphans |-> orphans, openStack |-> openStack]
    ELSE IF StartsWith(ScanText(d[i]), START_TAG)
    THEN ScanFrom(d, i + 1, Append(openStack, i), ranges, orphans)
    ELSE IF StartsWith(ScanText(d[i]), END_TAG)
    THEN IF Len(openStack) > 0
         THEN ScanFrom(d, i + 1, RemoveAt(openStack, PopIndex(openStack)),
                       Append(ranges, [start |-> openStack[PopIndex(openStack)],
                                       end |-> i]),
                       orphans)
         ELSE ScanFrom(d, i + 1, openStack, ranges, orphans \cup {i})
    ELSE ScanFrom(d, i + 1, openStack, ranges, orphans)

Scan(d) == ScanFrom(d, 1, <<>>, <<>>, {})

ValidRanges(d) == Scan(d).validRanges

\* close-marker lines the scanner met with an empty openStack
ScanOrphans(d) == Scan(d).orphans

RangeSet(rs) == {rs[k] : k \in 1..Len(rs)}

----------------------------------------------------------------------------
(* Difference array and running level                                      *)

DiffIncAfterStart(r) == r.start + 1

\* diff[range.start]++
DiffIncIdx(r) == r.start

DiffDecAtEnd(r) == r.end

\* diff[range.end + 1]--
DiffDecIdx(r) == r.end + 1

Diff(d) ==
    LET rs == ValidRanges(d)
        ok == {k \in 1..Len(rs) : rs[k].end >= rs[k].start}
    IN  [j \in 0..(Len(d) + 1) |->
            Cardinality({k \in ok : DiffIncIdx(rs[k]) = j})
          - Cardinality({k \in ok : DiffDecIdx(rs[k]) = j})]

RECURSIVE CurrentLevel(_, _)
CurrentLevel(d, i) ==
    IF i < 1 THEN 0 ELSE CurrentLevel(d, i - 1) + Diff(d)[i]

Levels(d) == [i \in 1..Len(d) |-> CurrentLevel(d, i)]

----------------------------------------------------------------------------
(* findMatchingEndLine                                                     *)

RECURSIVE FindEndFrom(_, _, _)
FindEndFrom(d, i, stack) ==
    IF i > Len(d) THEN -1
    ELSE LET lineText == TrimStart(d[i])
         IN  IF StartsWith(lineText, START_TAG)
             THEN FindEndFrom(d, i + 1, stack + 1)
             ELSE IF StartsWith(lineText, END_TAG)
             THEN IF stack - 1 = 0 THEN i
                  ELSE FindEndFrom(d, i + 1, stack - 1)
             ELSE FindEndFrom(d, i + 1, stack)

FindMatchingEndLine(d, startLineNo) == FindEndFrom(d, startLineNo + 1, 1)

----------------------------------------------------------------------------
(* notionFoldService: the heading fold range offered to the host           *)

NoFold == [ok |-> FALSE, from |-> -1, to |-> -1, endLine |-> -1]

\* the heading scan reads doc.line(i).text as it is
FoldText(t) == NoTrim(t)

\* the for loop of the heading branch: the value of endLineNo after it
RECURSIVE HeadingScan(_, _, _, _)
HeadingScan(d, i, headerLevel, toggleStack) ==
    IF i > Len(d) THEN -1
    ELSE LET nextLineText == FoldText(d[i])
             isOpen == StartsWith(nextLineText, START_TAG)
             isClose == ~isOpen /\ StartsWith(nextLineText, END_TAG)
             nextLevel == HeaderLevel(nextLineText)
             stack2 == IF isOpen THEN toggleStack + 1
                       ELSE IF isClose /\ toggleStack > 0 THEN toggleStack - 1
                       ELSE toggleStack
         IN  IF isClose /\ toggleStack = 0 THEN i - 1
             ELSE IF nextLevel > 0 /\ nextLevel <= headerLevel THEN i - 1
             ELSE HeadingScan(d, i + 1, headerLevel, stack2)

NotionFoldService(d, lineNo) ==
    LET text == d[lineNo]
    IN  IF StartsWith(text, START_TAG) THEN NoFold
        ELSE IF StartsWith(TrimStart(text), <<"#">>)
        THEN IF HeaderLevel(text) = 0 THEN NoFold
             ELSE LET endLineNo == HeadingScan(d, lineNo + 1, HeaderLevel(text), 0)
                  IN  IF endLineNo > lineNo
                      THEN [ok |-> TRUE, from |-> LineTo(d, lineNo),
                            to |-> LineTo(d, endLineNo), endLine |-> endLineNo]
                      ELSE NoFold
        ELSE NoFold

----------------------------------------------------------------------------
(* buildDecorations of togglePlugin (editor_extension.ts)                  *)

\* Math.min(currentLevel, 8)
MaxLevel == 8

Min(a, b) == IF a < b THEN a ELSE b

\* a DecoSpec; kind is the decoration pushed:
\*   "line"   Decoration.line with the class names of the line
\*   "hash"   Decoration.replace with a HeaderHashWidget
\*   "code"   Decoration.widget with the ToggleWidget of a code block toggle
\*   "toggle" Decoration.replace with the ToggleWidget of an open marker
\*   "end"    Decoration.replace with an EndTagWidget
\*   "copy"   Decoration.widget with a CopyWidget
Deco(kind, from, to, line) ==
    [kind |-> kind, from |-> from, to |-> to, line |-> line,
     level |-> 0, roundTop |-> FALSE, roundBot |-> FALSE, header |-> 0,
     isFolded |-> FALSE, foldStart |-> -1, foldEnd |-> -1,
     invisible |-> FALSE, endLine |-> -1]

\* r.to >= rangeFrom && r.from <= rangeTo for some selection range
Touches(s, rangeFrom, rangeTo) ==
    \E r \in s : r.to >= rangeFrom /\ r.from <= rangeTo

\* ranges.between(foldStart, foldEnd, ...) finding the exact range
IsFoldedRange(fr, foldStart, foldEnd) == <<foldStart, foldEnd>> \in fr

\* the search for the closing fence of a code block toggle
RECURSIVE CodeBlockEnd(_, _, _)
CodeBlockEnd(d, k, endToken) ==
    IF k > Len(d) THEN -1
    ELSE IF StartsWith(TrimStart(d[k]), endToken) THEN k
    ELSE CodeBlockEnd(d, k + 1, endToken)

HashStartAtMarker(from, indentLen) == from + indentLen

\* const hashStart = line.from + indentLen + START_TAG.length
\*                   + headerMatch.index (always 0)
HashStartOf(from, indentLen) == from + indentLen + Len(START_TAG)

\* [PRD 2.4.1] background marking with the header toggle logic
LineDecos(d, s, i, currentLevel) ==
    LET text == d[i]
        trimmedText == TrimStart(text)
        from == LineFrom(d, i)
        isStart == StartsWith(trimmedText, START_TAG)
        hm == IF isStart
              THEN TitleHeaderMatch(Slice(trimmedText, Len(START_TAG)))
              ELSE [level |-> 0, len |-> 0]
        indentLen == Len(text) - Len(trimmedText)
        hashStart == HashStartOf(from, indentLen)
        hashEnd == hashStart + hm.len
        isLineSelected == Touches(s, from, LineTo(d, i))
        hash == IF hm.level > 0 /\ ~isLineSelected /\ hashEnd <= LineTo(d, i)
                THEN <<Deco("hash", hashStart, hashEnd, i)>>
                ELSE <<>>
        lineDeco == [Deco("line", from, from, i) EXCEPT
                        !.level = Min(currentLevel, MaxLevel),
                        !.roundTop = isStart,
                        !.roundBot = StartsWith(trimmedText, END_TAG),
                        !.header = hm.level]
    IN  IF currentLevel > 0 THEN hash \o <<lineDeco>> ELSE <<>>

\* [PRD 2.5.2] code block toggle logic (triangle injection)
CodeDecos(d, fr, i, inCodeBlock) ==
    LET text == d[i]
        trimmedText == TrimStart(text)
        rangeFrom == LineFrom(d, i) + (Len(text) - Len(trimmedText))
        endToken == IF StartsWith(trimmedText, BACKTICKS) THEN BACKTICKS
                    ELSE TILDES
        codeBlockEndLine == CodeBlockEnd(d, i + 1, endToken)
        foldStart == LineTo(d, i)
        foldEnd == LineTo(d, codeBlockEndLine)
    IN  IF ~inCodeBlock /\ IsCodeBlockToggle(trimmedText)
           /\ codeBlockEndLine # -1
        THEN <<[Deco("code", rangeFrom, rangeFrom, i) EXCEPT
                   !.isFolded = IsFoldedRange(fr, foldStart, foldEnd),
                   !.foldStart = foldStart, !.foldEnd = foldEnd,
                   !.endLine = codeBlockEndLine]>>
        ELSE <<>>

FoldStartAtLineStart(d, i) == LineFrom(d, i)

\* const foldStart = line.to
FoldStartOf(d, i) == LineTo(d, i)

FoldEndAtLineStart(d, endLineNo) == LineFrom(d, endLineNo)

\* const foldEnd = doc.line(endLineNo).to
FoldEndOf(d, endLineNo) == LineTo(d, endLineNo)

\* [PRD 2.2.1] start widget logic
StartDecos(d, s, fr, i) ==
    LET text == d[i]
        trimmedText == TrimStart(text)
        rangeFrom == LineFrom(d, i) + (Len(text) - Len(trimmedText))
        rangeTo == rangeFrom + Len(START_TAG)
        isSelected == Touches(s, rangeFrom, rangeTo)
        isHeader ==
            TitleHeaderMatch(Slice(trimmedText, Len(START_TAG))).level > 0
        endLineNo == FindMatchingEndLine(d, i)
        foldStart == FoldStartOf(d, i)
        foldEnd == FoldEndOf(d, endLineNo)
    IN  IF StartsWith(trimmedText, START_TAG) /\ ~isSelected /\ endLineNo # -1
        THEN <<[Deco("toggle", rangeFrom, rangeTo, i) EXCEPT
                   !.isFolded = IsFoldedRange(fr, foldStart, foldEnd),
                   !.foldStart = foldStart, !.foldEnd = foldEnd,
                   !.invisible = isHeader, !.endLine = endLineNo]>>
        ELSE <<>>

\* [PRD 2.2.2] end widget logic; runningStack is the value before the line's
\* own decrement (an open marker on the line has already been counted)
EndDecos(d, s, i, runningStack) ==
    LET text == d[i]
        trimmedText == TrimStart(text)
        rangeFrom == LineFrom(d, i) + (Len(text) - Len(trimmedText))
        rangeTo == rangeFrom + Len(END_TAG)
        isOrphan == (runningStack = 0)
        isSelected == Touches(s, rangeFrom, rangeTo)
    IN  IF StartsWith(trimmedText, END_TAG) /\ ~isSelected /\ ~isOrphan
        THEN <<Deco("end", rangeFrom, rangeTo, i)>>
        ELSE <<>>

\* [PRD 2.5.4] copy widget logic
CopyDecos(d, i) ==
    LET endLineNo == FindMatchingEndLine(d, i)
    IN  IF StartsWith(TrimStart(d[i]), START_TAG) /\ endLineNo # -1
        THEN <<[Deco("copy", LineTo(d, i), LineTo(d, i), i) EXCEPT
                   !.endLine = endLineNo]>>
        ELSE <<>>

\* the single pass loop for decorations, from line i on
RECURSIVE BuildFrom(_, _, _, _, _, _)
BuildFrom(d, s, fr, diff, i, acc) ==
    IF i > Len(d) THEN acc
    ELSE
    LET currentLevel == acc.currentLevel + diff[i]
        trimmedText == TrimStart(d[i])
        isStart == StartsWith(trimmedText, START_TAG)
        isEnd == StartsWith(trimmedText, END_TAG)
        lineDecos == LineDecos(d, s, i, currentLevel)
        stackAfterStart == IF isStart THEN acc.runningStack + 1
                           ELSE acc.runningStack
        stackAfterEnd == IF isEnd /\ stackAfterStart # 0
                         THEN stackAfterStart - 1 ELSE stackAfterStart
    IN  IF IsFenceLine(trimmedText)
        THEN BuildFrom(d, s, fr, diff, i + 1,
                 [currentLevel |-> currentLevel,
                  runningStack |-> acc.runningStack,
                  inCodeBlock |-> ~acc.inCodeBlock,
                  orphanEnds |-> acc.orphanEnds,
                  decos |-> acc.decos \o lineDecos
                            \o CodeDecos(d, fr, i, acc.inCodeBlock)])
        ELSE IF acc.inCodeBlock
        THEN BuildFrom(d, s, fr, diff, i + 1,
                 [acc EXCEPT !.currentLevel = currentLevel,
                             !.decos = acc.decos \o lineDecos])
        ELSE BuildFrom(d, s, fr, diff, i + 1,
                 [currentLevel |-> currentLevel,
                  runningStack |-> stackAfterEnd,
                  inCodeBlock |-> FALSE,
                  orphanEnds |-> IF isEnd /\ stackAfterStart = 0
                                 THEN acc.orphanEnds \cup {i}
                                 ELSE acc.orphanEnds,
                  decos |-> acc.decos \o lineDecos
                            \o StartDecos(d, s, fr, i)
                            \o EndDecos(d, s, i, stackAfterStart)
                            \o CopyDecos(d, i)])

SortCmpNone(a, b) == 0

\* the comparator of decos.sort: a.from - b.from, 0 on equal starts
SortCmp(a, b) == IF a.from # b.from THEN a.from - b.from ELSE 0

\* decos.sort(comparator): Array.prototype.sort is stable
RECURSIVE InsertSorted(_, _)
InsertSorted(sorted, x) ==
    IF sorted = <<>> THEN <<x>>
    ELSE IF SortCmp(sorted[Len(sorted)], x) <= 0 THEN Append(sorted, x)
    ELSE Append(InsertSorted(SubSeq(sorted, 1, Len(sorted) - 1), x),
                sorted[Len(sorted)])

RECURSIVE SortDecos(_)
SortDecos(ds) ==
    IF ds = <<>> THEN <<>>
    ELSE InsertSorted(SortDecos(SubSeq(ds, 1, Len(ds) - 1)), ds[Len(ds)])

\* the value of inCodeBlock when the pass reaches line i
RECURSIVE InCodeBlockAt(_, _)
InCodeBlockAt(d, i) ==
    IF i <= 1 THEN FALSE
    ELSE IF IsFenceLine(TrimStart(d[i - 1])) THEN ~InCodeBlockAt(d, i - 1)
    ELSE InCodeBlockAt(d, i - 1)

\* the lines findMatchingEndLine(doc, startLineNo) reads
FindVisited(d, startLineNo) ==
    LET e == FindMatchingEndLine(d, startLineNo)
    IN  (startLineNo + 1)..(IF e = -1 THEN Len(d) ELSE e)

\* the lines the closing-fence search of line i reads
CodeVisited(d, i) ==
    LET trimmedText == TrimStart(d[i])
        e == CodeBlockEnd(d, i + 1, IF StartsWith(trimmedText, BACKTICKS)
                                    THEN BACKTICKS ELSE TILDES)
    IN  (i + 1)..(IF e = -1 THEN Len(d) ELSE e)

\* the open-marker lines whose start widget logic calls findMatchingEndLine
StartCallers(d, s) ==
    {i \in 1..Len(d) :
        LET text == d[i]
            trimmedText == TrimStart(text)
            rangeFrom == LineFrom(d, i) + (Len(text) - Len(trimmedText))
        IN  /\ ~IsFenceLine(trimmedText) /\ ~InCodeBlockAt(d, i)
            /\ StartsWith(trimmedText, START_TAG)
            /\ ~Touches(s, rangeFrom, rangeFrom + Len(START_TAG))}

\* the open-marker lines whose copy widget logic calls findMatchingEndLine
CopyCallers(d) ==
    {i \in 1..Len(d) :
        /\ ~IsFenceLine(TrimStart(d[i])) /\ ~InCodeBlockAt(d, i)
        /\ StartsWith(TrimStart(d[i]), START_TAG)}

\* the fence lines that run the closing-fence search
CodeCallers(d) ==
    {i \in 1..Len(d) :
        /\ IsFenceLine(TrimStart(d[i])) /\ ~InCodeBlockAt(d, i)
        /\ IsCodeBlockToggle(TrimStart(d[i]))}

\* how often one build pass reads doc.line(j): once in the scanner pass, once
\* in the decoration loop, and once per search that runs over it
LineVisits(d, s) ==
    [j \in 1..Len(d) |->
        2 + Cardinality({i \in StartCallers(d, s) : j \in FindVisited(d, i)})
          + Cardinality({i \in CopyCallers(d) : j \in FindVisited(d, i)})
          + Cardinality({i \in CodeCallers(d) : j \in CodeVisited(d, i)})]

BuildPass(d, s, fr) ==
    BuildFrom(d, s, fr, Diff(d), 1,
              [currentLevel |-> 0, runningStack |-> 0, inCodeBlock |-> FALSE,
               orphanEnds |-> {}, decos |-> <<>>])

BuildDecorations(d, s, fr) == SortDecos(BuildPass(d, s, fr).decos)

----------------------------------------------------------------------------
(* parseLevels of the reading mode processor (line numbers shifted to 1..) *)

RECURSIVE ParseScanFrom(_, _, _, _)
ParseScanFrom(d, i, openStack, ranges) ==
    IF i > Len(d) THEN ranges
    ELSE IF StartsWith(TrimStart(d[i]), START_TAG)
    THEN ParseScanFrom(d, i + 1, Append(openStack, i), ranges)
    ELSE IF StartsWith(TrimStart(d[i]), END_TAG) /\ Len(openStack) > 0
    THEN ParseScanFrom(d, i + 1, SubSeq(openStack, 1, Len(openStack) - 1),
                       Append(ranges, [start |-> openStack[Len(openStack)],
                                       end |-> i]))
    ELSE ParseScanFrom(d, i + 1, openStack, ranges)

ParseRanges(d) == ParseScanFrom(d, 1, <<>>, <<>>)

\* 2. accumulate levels: diff[range.start]++, diff[range.end + 1]--
ParseDiff(d) ==
    LET rs == ParseRanges(d)
        ok == {k \in 1..Len(rs) : rs[k].end >= rs[k].start}
    IN  [j \in 0..(Len(d) + 1) |->
            Cardinality({k \in ok : rs[k].start = j})
          - Cardinality({k \in ok : rs[k].end + 1 = j})]

\* 3. apply difference: currentLevel += diff[i]; levels[i] = currentLevel
RECURSIVE ParseCurrentLevel(_, _)
ParseCurrentLevel(d, i) ==
    IF i < 1 THEN 0 ELSE ParseCurrentLevel(d, i - 1) + ParseDiff(d)[i]

\* parseLevels(text): the level of every line and its round tag
ParseLevels(d) ==
    LET rs == RangeSet(ParseRanges(d))
    IN  [levels |-> [i \in 1..Len(d) |-> ParseCurrentLevel(d, i)],
         rounds |-> [i \in 1..Len(d) |->
                        IF \E r \in rs : r.end = i THEN "bot"
                        ELSE IF \E r \in rs : r.start = i THEN "top"
                        ELSE ""]]

----------------------------------------------------------------------------
(* Lines and documents of the bounded model                                *)

L_Open == START_TAG \o <<"A">>

L_OpenInd == <<" ">> \o START_TAG \o <<"A">>

L_Close == END_TAG

L_CloseInd == <<" ">> \o END_TAG

L_Plain == <<"x">>

L_Fence == BACKTICKS

L_FenceToggle == BACKTICKS \o <<">">>

L_Tilde == TILDES

L_HeadOpen == START_TAG \o <<"#", " ", "T">>

L_H1 == <<"#", " ", "H">>

L_H2 == <<"#", "#", " ", "H">>

Docs(alphabet, n) == UNION {[1..k -> alphabet] : k \in 1..n}

ScanLines == {L_Open, L_OpenInd, L_Close, L_CloseInd, L_Plain, L_Fence,
              L_FenceToggle, L_HeadOpen}

\* Example 2 of the specification
Example2Doc == <<L_Open, L_Open, L_Plain, L_Close, L_Close>>

ScanDocs == Docs(ScanLines, MaxLines) \cup {Example2Doc}

ResolveLines == {L_Open, L_Close, L_CloseInd, L_Plain, L_H1, L_H2}

ResolveDocs == Docs(ResolveLines, MaxLines)

Cursor(p) == [from |-> p, to |-> p, head |-> p]

----------------------------------------------------------------------------
(* Specification of one build pass over an arbitrary document              *)

NoHist == [op |-> "none", pos |-> -1, len |-> 0, before |-> {},
           c |-> [from |-> 0, to |-> 0, ins |-> <<>>]]

\* what the clipboard holds before any copy
OldClip == <<"o", "l", "d">>

\* no update call yet
NoUpd == [op |-> "none", docChanged |-> FALSE, viewportChanged |-> FALSE,
          foldEffect |-> FALSE, selectionSet |-> FALSE, rebuilt |-> FALSE,
          line |-> 0, endLine |-> 0]

InitRest ==
    /\ folded = {}
    /\ pc = "input"
    /\ validRanges = <<>>
    /\ levels = <<>>
    /\ decos = <<>>
    /\ foldRes = [line |-> 0, res |-> NoFold]
    /\ foldState = {}
    /\ widgets = {}
    /\ hist = <<NoHist, NoHist>>
    /\ clipboard = OldClip
    /\ upd = NoUpd
    /\ visits = <<>>

InitScan ==
    /\ doc \in ScanDocs
    /\ \E p \in {0, DocLength(doc)} : sel = {Cursor(p)}
    /\ InitRest

\* the constructor of togglePlugin: this.decorations = buildDecorations(view)
Build ==
    /\ pc = "input"
    /\ pc' = "built"
    /\ validRanges' = ValidRanges(doc)
    /\ levels' = Levels(doc)
    /\ decos' = BuildDecorations(doc, sel, folded)
    /\ visits' = LineVisits(doc, sel)
    /\ UNCHANGED <<doc, sel, folded, foldRes, foldState, widgets, hist,
                   clipboard, upd>>

NextScan == Build

SpecScan == InitScan /\ [][NextScan]_vars

----------------------------------------------------------------------------
(* Specification of the fold service queried on an arbitrary document      *)

InitResolve ==
    /\ doc \in ResolveDocs
    /\ sel = {Cursor(0)}
    /\ InitRest

\* the host asks the fold service for the range of line lineNo
Resolve(lineNo) ==
    /\ pc = "input"
    /\ pc' = "resolved"
    /\ foldRes' = [line |-> lineNo, res |-> NotionFoldService(doc, lineNo)]
    /\ UNCHANGED <<doc, sel, folded, validRanges, levels, decos, foldState,
                   widgets, hist, clipboard, upd, visits>>

NextResolve == \E lineNo \in 1..Len(doc) : Resolve(lineNo)

SpecResolve == InitResolve /\ [][NextResolve]_vars

----------------------------------------------------------------------------
(* Properties of the scanner and the difference array                      *)

Blocks == RangeSet(validRanges)

BlockDisjoint(a, b) == a.end < b.start \/ b.end < a.start

BlockInside(a, b) == a.start < b.start /\ b.end < a.end

\* C1: every Block (s,e) of the stack scanner has s < e, and two Blocks are
\* either disjoint or one strictly contains the other.
C1_WellNested ==
    pc = "built" =>
        /\ \A r \in Blocks : r.start < r.end
        /\ \A a, b \in Blocks :
              a # b => BlockDisjoint(a, b) \/ BlockInside(a, b) \/ BlockInside(b, a)

C1_Witness ==
    /\ pc = "built"
    /\ Len(doc) = 4
    /\ \E a, b \in Blocks : BlockInside(a, b)

\* C2 as stated: the level of line i is the number of Blocks b with
\* b.start < i <= b.end.
C2_DepthExcludesStart ==
    pc = "built" =>
        \A i \in 1..Len(doc) :
            levels[i] = Cardinality({b \in Blocks : b.start < i /\ i <= b.end})

\* C2 amended: the level of line i is the number of Blocks b with
\* b.start <= i <= b.end; Example 2 yields Blocks {(2,4),(1,5)} and the
\* levels 1,2,2,2,1.
C2_DepthIncludesStart ==
    pc = "built" =>
        /\ \A i \in 1..Len(doc) :
              levels[i] =
                  Cardinality({b \in Blocks : b.start <= i /\ i <= b.end})
        /\ doc = Example2Doc =>
              /\ Blocks = {[start |-> 2, end |-> 4], [start |-> 1, end |-> 5]}
              /\ levels = <<1, 2, 2, 2, 1>>

C2_Witness == pc = "built" /\ doc = Example2Doc /\ Len(validRanges) = 2

----------------------------------------------------------------------------
(* Properties of the decoration builder                                    *)

DecoSet == {decos[k] : k \in 1..Len(decos)}

DecosOf(kind) == {x \in DecoSet : x.kind = kind}

IsOpenLine(d, i) == StartsWith(TrimStart(d[i]), START_TAG)

IsCloseLine(d, i) == StartsWith(TrimStart(d[i]), END_TAG)

\* C3: a close-marker line the scanner meets with an empty open stack is the
\* end of no Block, its marker is not replaced, and no fold range of a
\* triangle ends on it.
C3_OrphanCloseInert ==
    pc = "built" =>
        \A i \in ScanOrphans(doc) :
            /\ \A b \in Blocks : b.end # i
            /\ \A x \in DecosOf("end") : x.line # i
            /\ \A x \in DecosOf("toggle") \cup DecosOf("code") :
                  x.foldEnd # LineTo(doc, i)

\* C4: an open-marker line without a matching close marker starts no Block,
\* gets no triangle and no copy affordance, and no fold range starts at it.
C4_UnterminatedOpenInert ==
    pc = "built" =>
        \A i \in 1..Len(doc) :
            (IsOpenLine(doc, i) /\ FindMatchingEndLine(doc, i) = -1) =>
                /\ \A b \in Blocks : b.start # i
                /\ \A x \in DecosOf("toggle") \cup DecosOf("copy") : x.line # i
                /\ \A x \in DecosOf("toggle") : x.foldStart # LineTo(doc, i)

\* marker lines inside an active fenced-code region
FencedMarkers(d) ==
    {i \in 1..Len(d) : /\ InCodeBlockAt(d, i)
                       /\ ~IsFenceLine(TrimStart(d[i]))
                       /\ (IsOpenLine(d, i) \/ IsCloseLine(d, i))}

\* the levels the document has once the fenced marker lines are blanked
LevelsWithoutFenced(d) ==
    Levels([i \in 1..Len(d) |-> IF i \in FencedMarkers(d) THEN L_Plain
                                ELSE d[i]])

\* C9: marker lines inside a fenced-code region are the start or end of no
\* Block, change no line's level, and are never the matching close of a
\* triangle.
C9_FencedMarkersIgnored ==
    pc = "built" =>
        /\ \A i \in FencedMarkers(doc) :
              /\ \A b \in Blocks : b.start # i /\ b.end # i
              /\ \A x \in DecosOf("toggle") : x.endLine # i
        /\ levels = LevelsWithoutFenced(doc)

----------------------------------------------------------------------------
(* Properties of the instruction list of one build pass                    *)

\* C12: the instruction list of one build pass is ordered by non-decreasing
\* start offset, and among equal start offsets by non-decreasing end offset.
C12_InstructionsOrdered ==
    pc = "built" =>
        \A k \in 1..(Len(decos) - 1) :
            \/ decos[k].from < decos[k + 1].from
            \/ /\ decos[k].from = decos[k + 1].from
               /\ decos[k].to <= decos[k + 1].to

\* a pass that pushed a hash replacement before the line style of its line
\* and that has two instructions of one start offset and different ends
C12_Witness ==
    /\ pc = "built"
    /\ DecosOf("hash") # {}
    /\ \E k \in 1..(Len(decos) - 1) :
          /\ decos[k].from = decos[k + 1].from
          /\ decos[k].to < decos[k + 1].to

\* the open-marker lines outside fenced code whose title is a heading and
\* which findMatchingEndLine pairs with a close line
HeadingToggleLines(d) ==
    {i \in 1..Len(d) :
        /\ ~InCodeBlockAt(d, i)
        /\ IsOpenLine(d, i)
        /\ TitleHeaderMatch(Slice(TrimStart(d[i]), Len(START_TAG))).level > 0
        /\ FindMatchingEndLine(d, i) # -1}

\* C14: every heading-titled open-marker line with a matching close line has
\* a line style with the heading tag of its level and no visible triangle;
\* when no selection touches the line, its open marker and its hash
\* characters are both replaced.
C14_HeadingToggleStyled ==
    pc = "built" =>
        \A i \in HeadingToggleLines(doc) :
            LET lvl == TitleHeaderMatch(Slice(TrimStart(doc[i]),
                                              Len(START_TAG))).level
            IN  /\ \E x \in DecosOf("line") : x.line = i /\ x.header = lvl
                /\ \A x \in DecosOf("toggle") : x.line = i => x.invisible
                /\ ~Touches(sel, LineFrom(doc, i), LineTo(doc, i)) =>
                      /\ \E x \in DecosOf("toggle") : x.line = i
                      /\ \E x \in DecosOf("hash") : x.line = i

\* C17: the reading mode pass and the editor pass compute the same blocks
\* and the same level for every line.
C17_ReadingModeAgrees ==
    pc = "built" =>
        /\ Blocks = RangeSet(ParseRanges(doc))
        /\ levels = ParseLevels(doc).levels

\* the places of one build pass that read the text of a line: the scanner
\* loop, the decoration loop, findMatchingEndLine called for the start widget
\* and for the copy widget, and the closing-fence search
VisitBound == 5

\* C18: one build pass examines each line a bounded number of times that does
\* not grow with the number of open markers: at most once per place that
\* reads lines.
C18_LineVisitsBounded ==
    pc = "built" => \A j \in 1..Len(doc) : visits[j] <= VisitBound

\* C23: a line carries the round-top tag if and only if it is the start
\* line of a Block, and the round-bottom tag if and only if it is the end
\* line of a Block.
C23_RoundTagsOnBlockEnds ==
    pc = "built" =>
        \A i \in 1..Len(doc) :
            /\ (\E x \in DecosOf("line") : x.line = i /\ x.roundTop)
                  <=> (\E b \in Blocks : b.start = i)
            /\ (\E x \in DecosOf("line") : x.line = i /\ x.roundBot)
                  <=> (\E b \in Blocks : b.end = i)

\* C26: the level of line i is the number of Blocks (s,e) with s <= i <= e,
\* so the lines s..e of a Block are all at least at level 1 and the open and
\* the close line of one Block have the same level.
C26_LevelCountsEnclosingBlocks ==
    pc = "built" =>
        /\ \A i \in 1..Len(doc) :
              levels[i] =
                  Cardinality({b \in Blocks : i \in b.start..b.end})
        /\ \A b \in Blocks :
              /\ levels[b.start] = levels[b.end]
              /\ \A i \in b.start..b.end : levels[i] >= levels[b.start]

\* a Block nested in another, with a content line, whose open and close
\* line are at level 2
C26_Witness ==
    /\ pc = "built"
    /\ \E a, b \in Blocks :
          /\ BlockInside(a, b)
          /\ b.end > b.start + 1
          /\ levels[b.start] = 2 /\ levels[b.end] = 2

\* C27: for every open-marker line s, findMatchingEndLine gives a close line
\* for s exactly when the scanner has a Block that starts at s, that Block
\* ends on the same line, and the triangle of s, when the selection leaves
\* the marker free, is there exactly when the Block is.
C27_PairingsAgree ==
    pc = "built" =>
        \A s \in {i \in 1..Len(doc) :
                      IsOpenLine(doc, i) /\ ~InCodeBlockAt(doc, i)} :
            LET e == FindMatchingEndLine(doc, s)
                rangeFrom == LineFrom(doc, s) + LeadingWs(doc[s])
                free == ~Touches(sel, rangeFrom, rangeFrom + Len(START_TAG))
            IN  /\ e # -1 <=> \E b \in Blocks : b.start = s
                /\ \A b \in Blocks : b.start = s => b.end = e
                /\ free => ((\E x \in DecosOf("toggle") : x.line = s)
                              <=> \E b \in Blocks : b.start = s)

----------------------------------------------------------------------------
(* Properties of the fold service                                          *)

\* C8: the fold range returned for a heading inside a Toggle block (s,e),
\* markers recognised after trimming, ends before line e.
C8_HeadingStaysInsideBlock ==
    (pc = "resolved" /\ foldRes.res.ok) =>
        \A b \in RangeSet(ParseRanges(doc)) :
            (b.start < foldRes.line /\ foldRes.line < b.end) =>
                foldRes.res.to < LineFrom(doc, b.end)

\* the first line from i on that stops the scan of a heading of level L:
\* a close marker met with counter 0 or a heading of level at most L, markers
\* recognised after trimming; 0 when no line stops it
RECURSIVE FirstStop(_, _, _, _)
FirstStop(d, i, L, counter) ==
    IF i > Len(d) THEN 0
    ELSE LET t == TrimStart(d[i])
             isOpen == StartsWith(t, START_TAG)
             isClose == ~isOpen /\ StartsWith(t, END_TAG)
         IN  IF isClose /\ counter = 0 THEN i
             ELSE IF HeaderLevel(t) > 0 /\ HeaderLevel(t) <= L THEN i
             ELSE FirstStop(d, i + 1, L,
                            IF isOpen THEN counter + 1
                            ELSE IF isClose THEN counter - 1
                            ELSE counter)

\* C20: for a heading line of level L the fold ends one line above the first
\* line that is a close marker met with counter 0 or a heading of level at
\* most L, open markers raising the counter and close markers met with a
\* positive counter lowering it.
C20_HeadingFoldEnd ==
    (pc = "resolved" /\ HeaderLevel(doc[foldRes.line]) > 0) =>
        LET stop == FirstStop(doc, foldRes.line + 1,
                              HeaderLevel(doc[foldRes.line]), 0)
        IN  /\ foldRes.res.ok => foldRes.res.endLine = stop - 1
            /\ stop - 1 > foldRes.line => foldRes.res.ok

\* C29: for a heading line with no stop line before the end of the document,
\* or whose first stop line is the line right after it, the resolver returns
\* no fold range; a range it returns is never empty or reversed and ends
\* below the heading.
C29_NoFoldWithoutScope ==
    (pc = "resolved" /\ HeaderLevel(doc[foldRes.line]) > 0) =>
        LET stop == FirstStop(doc, foldRes.line + 1,
                              HeaderLevel(doc[foldRes.line]), 0)
        IN  /\ (stop = 0 \/ stop = foldRes.line + 1) => ~foldRes.res.ok
            /\ foldRes.res.ok => /\ foldRes.res.from < foldRes.res.to
                                 /\ foldRes.res.endLine > foldRes.line

----------------------------------------------------------------------------
(* togglePlugin.ts: the foldState field and the flat decoration builder    *)

\* TOGGLE_SYNTAX: a bar, an angle bracket and one whitespace at column 0
IsToggleLine(t) ==
    Len(t) >= 3 /\ t[1] = "|" /\ t[2] = ">" /\ IsWs(t[3])

\* the document as one string, the line breaks included
RECURSIVE Flat(_)
Flat(d) ==
    IF Len(d) = 1 THEN d[1]
    ELSE Flat(SubSeq(d, 1, Len(d) - 1)) \o <<"\n">> \o d[Len(d)]

RECURSIVE Split(_)
Split(f) ==
    IF \A k \in 1..Len(f) : f[k] # "\n" THEN <<f>>
    ELSE LET n == CHOOSE k \in 1..Len(f) :
                      f[k] = "\n" /\ \A m \in 1..(k - 1) : f[m] # "\n"
         IN  <<SubSeq(f, 1, n - 1)>> \o Split(SubSeq(f, n + 1, Len(f)))

\* a change {from, to, insert} of a transaction
Change(from, to, ins) == [from |-> from, to |-> to, ins |-> ins]

NoChange == Change(0, 0, <<>>)

ApplyChange(d, c) ==
    LET f == Flat(d)
    IN  Split(SubSeq(f, 1, c.from) \o c.ins \o SubSeq(f, c.to + 1, Len(f)))

\* tr.changes.mapPos(pos): ChangeSet.mapPos with the default assoc = -1
MapPos(pos, c) ==
    IF pos < c.from THEN pos
    ELSE IF pos < c.to \/ (pos = c.to /\ c.from = c.to) THEN c.from
    ELSE pos - (c.to - c.from) + Len(c.ins)

NoEffect == [is |-> FALSE, pos |-> -1, on |-> FALSE]

ApplyEffectClearing(newValue, effect) ==
    IF effect.on THEN newValue \cup {effect.pos} ELSE {}

\* newValue.add(effect.value.pos) or newValue.delete(effect.value.pos)
ApplyEffect(newValue, effect) ==
    IF effect.on THEN newValue \cup {effect.pos}
    ELSE newValue \ {effect.pos}

\* foldState.update(value, tr): value is only read, the result is a new Set
FoldUpdate(value, c, effect) ==
    LET newValue == {MapPos(pos, c) : pos \in value}
    IN  IF effect.is THEN ApplyEffect(newValue, effect) ELSE newValue

RECURSIVE NextToggle(_, _)
NextToggle(d, j) ==
    IF j > Len(d) THEN j
    ELSE IF IsToggleLine(d[j]) THEN j
    ELSE NextToggle(d, j + 1)

\* buildDecorations of togglePlugin.ts: the widgets and the hidden ranges
RECURSIVE FlatFrom(_, _, _, _)
FlatFrom(d, fs, i, acc) ==
    IF i > Len(d) THEN acc
    ELSE IF ~IsToggleLine(d[i]) THEN FlatFrom(d, fs, i + 1, acc)
    ELSE
    LET isFolded == LineFrom(d, i) \in fs
        w == [kind |-> "widget", from |-> LineFrom(d, i),
              to |-> LineFrom(d, i) + 3, isFolded |-> isFolded]
        startFold == LineTo(d, i) + 1
        j == NextToggle(d, i + 1)
        endFold == IF j <= Len(d) THEN LineFrom(d, j) - 1 ELSE DocLength(d)
        hide == [kind |-> "hide", from |-> startFold, to |-> endFold,
                 isFolded |-> TRUE]
    IN  IF ~isFolded \/ startFold > DocLength(d)
        THEN FlatFrom(d, fs, i + 1, acc \cup {w})
        ELSE FlatFrom(d, fs, j,
                      acc \cup {w}
                          \cup (IF endFold > startFold THEN {hide} ELSE {}))

FlatBuild(d, fs) == FlatFrom(d, fs, 1, {})

ClickOnAlways(w) == TRUE

\* toggleEffect.of({ pos, on: !this.isFolded })
ClickOn(w) == ~w.isFolded

----------------------------------------------------------------------------
(* Specification of the togglePlugin.ts editor: clicks and edits           *)

L_NoBar == <<">", " ", "A">>

FoldLines == {L_Open, L_Plain}

InsertedLines == {L_Plain}

InitFold ==
    /\ doc \in Docs(FoldLines, MaxFoldLines)
    /\ sel = {Cursor(0)}
    /\ folded = {}
    /\ pc = "idle"
    /\ validRanges = <<>>
    /\ levels = <<>>
    /\ decos = <<>>
    /\ foldRes = [line |-> 0, res |-> NoFold]
    /\ foldState = {}
    /\ widgets = FlatBuild(doc, {})
    /\ hist = <<NoHist, NoHist>>
    /\ clipboard = OldClip
    /\ upd = NoUpd
    /\ visits = <<>>

\* one transaction: the field update, then the plugin update, which rebuilds
\* because update() always returns a new Set
Transaction(c, effect, h) ==
    /\ doc' = ApplyChange(doc, c)
    /\ foldState' = FoldUpdate(foldState, c, effect)
    /\ widgets' = FlatBuild(doc', foldState')
    /\ hist' = <<hist[2], [op |-> h.op, pos |-> h.pos, len |-> h.len,
                          before |-> h.before, c |-> c]>>
    /\ UNCHANGED <<sel, folded, pc, validRanges, levels, decos, foldRes,
                   clipboard, upd, visits>>

\* span.onclick of a ToggleWidget; pos = view.posAtDOM(span)
Click(w) ==
    /\ w.kind = "widget"
    /\ Transaction(NoChange,
                   [is |-> TRUE, pos |-> w.from, on |-> ClickOn(w)],
                   [op |-> "click", pos |-> w.from, len |-> 0,
                    before |-> foldState])

\* the user types a whole line in front of line i
InsertLineAt(i, l) ==
    /\ Len(doc) < MaxFoldLines
    /\ Transaction(Change(LineFrom(doc, i), LineFrom(doc, i), l \o <<"\n">>),
                   NoEffect,
                   [op |-> "insertLine", pos |-> LineFrom(doc, i),
                    len |-> Len(l) + 1, before |-> {}])

\* the user presses Enter at the end of line i and types a line
InsertLineAfter(i, l) ==
    /\ Len(doc) < MaxFoldLines
    /\ Transaction(Change(LineTo(doc, i), LineTo(doc, i), <<"\n">> \o l),
                   NoEffect,
                   [op |-> "insertLine", pos |-> LineTo(doc, i),
                    len |-> Len(l) + 1, before |-> {}])

\* the user deletes the bar of the marker of line i
DeleteBar(i) ==
    /\ Len(doc[i]) >= 1 /\ doc[i][1] = "|"
    /\ Transaction(Change(LineFrom(doc, i), LineFrom(doc, i) + 1, <<>>),
                   NoEffect,
                   [op |-> "deleteBar", pos |-> LineFrom(doc, i),
                    len |-> 0, before |-> {}])

\* the user types the bar back in front of line i
InsertBar(i) ==
    /\ doc[i] = L_NoBar
    /\ Transaction(Change(LineFrom(doc, i), LineFrom(doc, i), <<"|">>),
                   NoEffect,
                   [op |-> "insertBar", pos |-> LineFrom(doc, i),
                    len |-> 1, before |-> {}])

\* the user deletes line i with its line break
DeleteLine(i) ==
    /\ Len(doc) > 1
    /\ Transaction(IF i < Len(doc)
                   THEN Change(LineFrom(doc, i), LineFrom(doc, i + 1), <<>>)
                   ELSE Change(LineTo(doc, i - 1), LineTo(doc, i), <<>>),
                   NoEffect,
                   [op |-> "deleteLine", pos |-> LineFrom(doc, i),
                    len |-> 0, before |-> {}])

NextFold ==
    \/ \E w \in widgets : Click(w)
    \/ \E i \in 1..Len(doc), l \in InsertedLines : InsertLineAt(i, l)
    \/ \E i \in 1..Len(doc), l \in InsertedLines : InsertLineAfter(i, l)
    \/ \E i \in 1..Len(doc) : DeleteBar(i)
    \/ \E i \in 1..Len(doc) : InsertBar(i)
    \/ \E i \in 1..Len(doc) : DeleteLine(i)

SpecFold == InitFold /\ [][NextFold]_vars

----------------------------------------------------------------------------
(* Properties of the fold state                                            *)

\* C5: a click never changes the buffer text, and two clicks in a row on the
\* same anchor (fold then unfold, or unfold then fold) give back the
\* FoldState the first click started from.
C5_FoldRoundTrip ==
    [][hist'[2].op = "click" =>
          /\ doc' = doc
          /\ (hist[2].op = "click" /\ hist[2].pos = hist'[2].pos) =>
                foldState' = hist[2].before]_vars

C5_Witness ==
    /\ hist[1].op = "click" /\ hist[2].op = "click"
    /\ hist[1].pos = hist[2].pos
    /\ hist[1].pos \in foldState
    /\ foldState = hist[1].before
    /\ Cardinality(foldState) >= 2

\* C24: a transaction without a toggle effect never raises the number of
\* anchors and every new anchor is the image of an old one under the change;
\* a toggle effect on position p changes the membership of p only and leaves
\* every other anchor in place.
C24_FoldStateFrame ==
    [][IF hist'[2].op = "click"
       THEN /\ foldState' \ {hist'[2].pos} = foldState \ {hist'[2].pos}
            /\ (hist'[2].pos \in foldState') # (hist'[2].pos \in foldState)
       ELSE /\ Cardinality(foldState') <= Cardinality(foldState)
            /\ \A a \in foldState' :
                  \E b \in foldState : a = MapPos(b, hist'[2].c)]_vars

\* an unfold click that left another anchor in place, after an edit that
\* moved an anchor
C24_Witness ==
    /\ hist[2].op = "click"
    /\ hist[2].pos \in hist[2].before /\ hist[2].pos \notin foldState
    /\ foldState # {}
    /\ hist[1].op = "insertLine" /\ hist[1].pos = 0

\* C6: when whole lines are inserted at an offset at or before the start of a
\* folded open line, the anchor moves forward by the inserted length, sits at
\* the new start of the open line, and the block is still folded.
C6_InsertAboveKeepsFold ==
    [][hist'[2].op = "insertLine" =>
          \A i \in 1..Len(doc) :
              (/\ IsToggleLine(doc[i])
               /\ LineFrom(doc, i) \in foldState
               /\ hist'[2].pos <= LineFrom(doc, i)) =>
                  /\ LineFrom(doc, i) + hist'[2].len \in foldState'
                  /\ LineFrom(doc, i) + hist'[2].len = LineFrom(doc', i + 1)
                  /\ doc'[i + 1] = doc[i]
                  /\ \E w \in widgets' :
                        /\ w.kind = "widget" /\ w.isFolded
                        /\ w.from = LineFrom(doc', i + 1)]_vars

\* C7: every anchor of FoldState sits on a line carrying an open marker.
C7_AnchorsOnOpenLines ==
    \A a \in foldState :
        /\ a <= DocLength(doc)
        /\ IsToggleLine(doc[LineAt(doc, a)])

----------------------------------------------------------------------------
(* Specification of the live editor: togglePlugin, its widgets and the     *)
(* transactions they and the user dispatch (editor_extension.ts)           *)

MaxTyped == 1

\* the character the user types
TypedChar == "z"

Typed(d) == Cardinality({k \in 1..Len(Flat(d)) : Flat(d)[k] = TypedChar})

\* a block with content and a line after it; a heading-titled block
EditorDocs == {<<L_Open, L_Plain, L_Close, L_Plain>>,
               <<L_HeadOpen, L_Plain, L_Close>>}

\* the offsets a selection is put at: the two ends of every line
SelPoints(d) == {LineFrom(d, i) : i \in 1..Len(d)}
                   \cup {LineTo(d, i) : i \in 1..Len(d)}

\* one selection range {anchor, head}
SelRange(anchor, head) ==
    [from |-> Min(anchor, head),
     to |-> IF anchor < head THEN head ELSE anchor,
     head |-> head]

\* hasOverlap(state): the line of some range's head starts with a tag
HasOverlap(d, s) ==
    \E range \in s :
        LET text == TrimStart(d[LineAt(d, range.head)])
        IN  StartsWith(text, START_TAG) \/ StartsWith(text, END_TAG)

\* the value of shouldUpdate when togglePlugin.update decides
ShouldUpdate(docChanged, viewportChanged, foldEff, selectionSet, s1) ==
    LET shouldUpdate == docChanged \/ viewportChanged \/ foldEff
    IN  IF ~shouldUpdate /\ selectionSet
        THEN HasOverlap(doc, sel) \/ HasOverlap(doc, s1)
        ELSE shouldUpdate

\* ChangeSet.mapPos(pos, 1): the position stays behind text inserted at it
MapPosAfter(pos, c) ==
    IF pos < c.from THEN pos
    ELSE IF pos = c.from /\ c.from < c.to THEN c.from
    ELSE IF pos < c.to THEN c.from + Len(c.ins)
    ELSE pos - (c.to - c.from) + Len(c.ins)

\* the folded ranges of the host mapped through a change: a range grows by
\* no text inserted at either end and is dropped once it is empty
MapFolds(fr, c) ==
    {r \in {<<MapPosAfter(q[1], c), MapPos(q[2], c)>> : q \in fr} :
        r[1] < r[2]}

\* the host applies foldEffect / unfoldEffect of the range (from, to)
ApplyFold(fr, isUnfold, from, to) ==
    IF isUnfold THEN fr \ {<<from, to>>} ELSE fr \cup {<<from, to>>}

\* a triangle with an onclick handler
ClickableTriangle(x) == x.kind \in {"toggle", "code"} /\ ~x.invisible

InitEditor ==
    /\ doc \in EditorDocs
    /\ \E p \in SelPoints(doc) : sel = {Cursor(p)}
    /\ folded = {}
    /\ pc = "idle"
    /\ validRanges = <<>>
    /\ levels = <<>>
    /\ decos = BuildDecorations(doc, sel, folded)
    /\ visits = <<>>
    /\ foldRes = [line |-> 0, res |-> NoFold]
    /\ foldState = {}
    /\ widgets = {}
    /\ hist = <<NoHist, NoHist>>
    /\ clipboard = OldClip
    /\ upd = NoUpd

\* one transaction reaching state (d1, s1, f1), then togglePlugin.update
EditorUpdate(op, d1, s1, f1, viewportChanged, foldEff, selectionSet) ==
    LET docChanged == d1 # doc
        shouldUpdate == ShouldUpdate(docChanged, viewportChanged, foldEff,
                                     selectionSet, s1)
    IN  /\ doc' = d1
        /\ sel' = s1
        /\ folded' = f1
        /\ decos' = IF shouldUpdate THEN BuildDecorations(d1, s1, f1)
                    ELSE decos
        /\ upd' = [NoUpd EXCEPT !.op = op, !.docChanged = docChanged,
                                !.viewportChanged = viewportChanged,
                                !.foldEffect = foldEff,
                                !.selectionSet = selectionSet,
                                !.rebuilt = shouldUpdate]
        /\ UNCHANGED <<pc, validRanges, levels, visits, foldRes, foldState,
                       widgets, hist, clipboard>>

\* the user puts the cursor at head, or extends the selection from the start
\* of the document to head
Select(anchor, head) ==
    /\ anchor \in {head, 0}
    /\ EditorUpdate("select", doc, {SelRange(anchor, head)}, folded,
                    FALSE, FALSE, TRUE)

\* the user types one character at the cursor
TypeChar ==
    /\ Typed(doc) < MaxTyped
    /\ \E r \in sel :
          /\ r.from = r.to
          /\ LET c == Change(r.head, r.head, <<TypedChar>>)
             IN  EditorUpdate("type", ApplyChange(doc, c),
                              {Cursor(r.head + 1)}, MapFolds(folded, c),
                              FALSE, FALSE, TRUE)

\* the visible region changes
Scroll == EditorUpdate("scroll", doc, sel, folded, TRUE, FALSE, FALSE)

\* ToggleWidget onclick
ClickTriangle(x) ==
    /\ ClickableTriangle(x)
    /\ EditorUpdate(IF x.isFolded THEN "unfold" ELSE "fold", doc, sel,
                    ApplyFold(folded, x.isFolded, x.foldStart, x.foldEnd),
                    FALSE, TRUE, FALSE)

\* EndTagWidget onclick: view.dispatch({ selection: { anchor: this.pos } })
ClickEndTag(x) ==
    /\ x.kind = "end"
    /\ EditorUpdate("endtag", doc, {Cursor(x.from)}, folded,
                    FALSE, FALSE, TRUE)

NextEditor ==
    \/ \E anchor, head \in SelPoints(doc) : Select(anchor, head)
    \/ TypeChar
    \/ Scroll
    \/ \E x \in DecoSet : ClickTriangle(x)
    \/ \E x \in DecoSet : ClickEndTag(x)

SpecEditor == InitEditor /\ [][NextEditor]_vars

----------------------------------------------------------------------------
(* Properties of the live editor                                           *)

\* the triangles of Toggle blocks the host currently shows folded
FoldedToggles == {x \in DecosOf("toggle") : x.isFolded}

\* the offsets of the characters the fold of triangle x hides
Hidden(x) == x.foldStart..(x.foldEnd - 1)

\* the offsets of the characters of line i, its line break excluded
LineChars(d, i) == LineFrom(d, i)..(LineTo(d, i) - 1)

\* the offsets of lines a..b, their line breaks included
LinesWithBreaks(d, a, b) == UNION {LineFrom(d, j)..LineTo(d, j) : j \in a..b}

\* C11 (as stated): a folded Toggle block hides no character of its
\* open-marker line and no character of its close-marker line.
C11_TagLinesVisible ==
    \A x \in FoldedToggles :
        Hidden(x) \cap (LineChars(doc, x.line) \cup LineChars(doc, x.endLine))
            = {}

\* C11 (amended): a folded Toggle block hides the line break that ends its
\* open-marker line, every line between the two tag lines with its line
\* break, and every character of the close-marker line; it hides no
\* character of the open-marker line and not the line break after the
\* close-marker line.
C11_FoldHidesThroughCloseLine ==
    \A x \in FoldedToggles :
        /\ <<x.foldStart, x.foldEnd>> \in folded
        /\ IsOpenLine(doc, x.line) /\ IsCloseLine(doc, x.endLine)
        /\ Hidden(x) = {LineTo(doc, x.line)}
                          \cup LinesWithBreaks(doc, x.line + 1, x.endLine - 1)
                          \cup LineChars(doc, x.endLine)

\* a folded block with a content line between its tag lines
C11_Witness ==
    \E x \in FoldedToggles : x.endLine > x.line + 1 /\ upd.op = "fold"

\* C13: after every transaction no replacement lies over an open or close
\* marker whose character range a range of the selection overlaps.
C13_SelectedMarkersRaw ==
    \A x \in DecosOf("toggle") \cup DecosOf("end") :
        ~Touches(sel, x.from, x.to)

\* C15: wherever the builder puts the triangle of a heading-titled Toggle
\* block, as it does for a normal toggle, a user action is offered that
\* requests the fold of its range while it is open and its unfold while it
\* is folded: a click handler on the triangle, or the range the fold service
\* gives the host for its line.
C15_HeadingToggleFoldable ==
    \A x \in DecosOf("toggle") :
        x.line \in HeadingToggleLines(doc) =>
            LET r == NotionFoldService(doc, x.line)
            IN  \/ ClickableTriangle(x)
                \/ /\ ~x.isFolded /\ r.ok
                   /\ r.from = x.foldStart /\ r.to = x.foldEnd

\* the character ranges of the open and close markers of document d
MarkerRanges(d) ==
    {<<LineFrom(d, i) + LeadingWs(d[i]),
       LineFrom(d, i) + LeadingWs(d[i]) + Len(START_TAG)>> :
        i \in {j \in 1..Len(d) : IsOpenLine(d, j)}}
    \cup {<<LineFrom(d, i) + LeadingWs(d[i]),
            LineFrom(d, i) + LeadingWs(d[i]) + Len(END_TAG)>> :
        i \in {j \in 1..Len(d) : IsCloseLine(d, j)}}

SelTouchesMarker(d, s) == \E m \in MarkerRanges(d) : Touches(s, m[1], m[2])

\* C19: a transaction rebuilds the instruction set if and only if the text
\* changed, the visible region changed, a fold or unfold effect occurred, or
\* the selection before or after it touches a marker's character range; every
\* other transaction keeps the previous instruction set.
C19_RebuildIffNeeded ==
    [][LET needed == \/ upd'.docChanged
                     \/ upd'.viewportChanged
                     \/ upd'.foldEffect
                     \/ SelTouchesMarker(doc, sel)
                     \/ SelTouchesMarker(doc', sel')
       IN  /\ upd'.rebuilt <=> needed
           /\ ~needed => decos' = decos]_vars

\* C28: after every transaction the instruction set the plugin holds is the
\* one a fresh build gives for the current document, selection and folded
\* ranges.
C28_InstructionsFresh == decos = BuildDecorations(doc, sel, folded)

----------------------------------------------------------------------------
(* Specification of the copy affordance on an arbitrary built document     *)

CopyLines == {L_Open, L_Close, L_Plain}

CopyDocs == Docs(CopyLines, MaxLines)

InitCopy ==
    /\ doc \in CopyDocs
    /\ sel = {Cursor(0)}
    /\ folded = {}
    /\ pc = "built"
    /\ validRanges = ValidRanges(doc)
    /\ levels = Levels(doc)
    /\ decos = BuildDecorations(doc, sel, folded)
    /\ visits = LineVisits(doc, sel)
    /\ foldRes = [line |-> 0, res |-> NoFold]
    /\ foldState = {}
    /\ widgets = {}
    /\ hist = <<NoHist, NoHist>>
    /\ clipboard = OldClip
    /\ upd = NoUpd

CopyFromStartLine(d, startLineNo) == LineFrom(d, startLineNo)

\* const fromPos = doc.line(this.startLineNo + 1).from
CopyFrom(d, startLineNo) == LineFrom(d, startLineNo + 1)

\* doc.sliceString(fromPos, toPos)
SliceString(d, fromPos, toPos) == SubSeq(Flat(d), fromPos + 1, toPos)

\* what CopyWidget onclick gives to navigator.clipboard.writeText
CopyText(d, startLineNo, endLineNo) ==
    IF endLineNo <= startLineNo + 1 THEN <<>>
    ELSE SliceString(d, CopyFrom(d, startLineNo), LineTo(d, endLineNo - 1))

\* CopyWidget onclick
ClickCopy(x) ==
    /\ pc = "built"
    /\ x.kind = "copy"
    /\ pc' = "copied"
    /\ clipboard' = CopyText(doc, x.line, x.endLine)
    /\ upd' = [NoUpd EXCEPT !.op = "copy", !.line = x.line,
                            !.endLine = x.endLine]
    /\ UNCHANGED <<doc, sel, folded, validRanges, levels, decos,
                   foldRes, foldState, widgets, hist, visits>>

NextCopy == \E x \in DecoSet : ClickCopy(x)

SpecCopy == InitCopy /\ [][NextCopy]_vars

----------------------------------------------------------------------------
(* Properties of the copy affordance                                       *)

\* the copy affordance of an empty block was activated
EmptyCopied == pc = "copied" /\ upd.endLine = upd.line + 1

\* C16 (as stated): activating the copy affordance of an empty block leaves
\* the clipboard content unchanged.
C16_EmptyCopyKeepsClipboard == EmptyCopied => clipboard = OldClip

\* C16 (amended): activating the copy affordance of an empty block sets the
\* clipboard to the empty string; for any other block it sets the clipboard
\* to the lines strictly between the open and close line, joined by line
\* breaks.
C16_CopyWritesBlockText ==
    pc = "copied" =>
        clipboard = IF upd.endLine = upd.line + 1 THEN <<>>
                    ELSE Flat(SubSeq(doc, upd.line + 1, upd.endLine - 1))

\* the copy affordance of an empty block was activated and the clipboard
\* lost its content
C16_Witness == EmptyCopied /\ clipboard = <<>> /\ clipboard # OldClip

----------------------------------------------------------------------------
(* Specification of one build pass over documents with both fence kinds    *)

L_TildeToggle == TILDES \o <<">">>

FenceLines == {L_Fence, L_FenceToggle, L_Tilde, L_TildeToggle, L_Plain,
               L_Open, L_Close}

\* a backtick region holding a tilde line, then a backtick code block toggle
MixedFenceDoc == <<L_Fence, L_Tilde, L_Fence, L_FenceToggle, L_Fence>>

FenceDocs == Docs(FenceLines, MaxLines) \cup {MixedFenceDoc}

InitFence ==
    /\ doc \in FenceDocs
    /\ sel = {Cursor(DocLength(doc))}
    /\ InitRest

NextFence == Build

SpecFence == InitFence /\ [][NextFence]_vars

\* the delimiter of a fence line
FenceToken(t) == IF StartsWith(t, BACKTICKS) THEN BACKTICKS ELSE TILDES

\* the delimiter of the fenced region that is open when line i is reached,
\* the empty sequence when none is: a fence line opens a region and only a
\* fence line of the opening delimiter closes it
RECURSIVE OpenFenceAt(_, _)
OpenFenceAt(d, i) ==
    IF i <= 1 THEN <<>>
    ELSE LET before == OpenFenceAt(d, i - 1)
             t == TrimStart(d[i - 1])
         IN  IF before = <<>>
             THEN IF IsFenceLine(t) THEN FenceToken(t) ELSE <<>>
             ELSE IF StartsWith(t, before) THEN <<>> ELSE before

\* the lines after line i that start with the delimiter of line i
LaterFences(d, i) ==
    {k \in (i + 1)..Len(d) :
        StartsWith(TrimStart(d[k]), FenceToken(TrimStart(d[i])))}

\* C21: a fence-toggle open line met outside a fenced region has a triangle
\* if and only if a later line starts with its delimiter, and the fold range
\* of the triangle runs from the end of the open line to the end of the first
\* such line.
C21_FenceToggleRange ==
    pc = "built" =>
        \A i \in {j \in 1..Len(doc) :
                      /\ IsCodeBlockToggle(TrimStart(doc[j]))
                      /\ OpenFenceAt(doc, j) = <<>>} :
            LET later == LaterFences(doc, i)
                first == CHOOSE k \in later : \A m \in later : k <= m
            IN  /\ (\E x \in DecosOf("code") : x.line = i) <=> later # {}
                /\ \A x \in DecosOf("code") :
                      x.line = i => /\ x.foldStart = LineTo(doc, i)
                                    /\ x.foldEnd = LineTo(doc, first)

\* C22: inside a region opened by a fence of one delimiter, up to the next
\* fence line of that delimiter, no line is interpreted as a marker or as a
\* code block toggle, whatever fence lines of the other delimiter it holds.
C22_FenceRegionSuppressesMarkers ==
    pc = "built" =>
        \A i \in {j \in 1..Len(doc) :
                      /\ OpenFenceAt(doc, j) # <<>>
                      /\ ~StartsWith(TrimStart(doc[j]), OpenFenceAt(doc, j))} :
            \A x \in DecoSet :
                x.kind \in {"toggle", "end", "copy", "code"} => x.line # i

----------------------------------------------------------------------------
(* Specification of one build pass over documents with heading titles      *)

\* an indented open marker whose title has whitespace before its hashes
L_HeadOpenInd == <<" ">> \o START_TAG \o <<" ", "#", "#", " ", "T">>

HeadLines == {L_HeadOpen, L_HeadOpenInd, L_Close, L_CloseInd, L_Plain}

HeadDocs == Docs(HeadLines, MaxLines)

InitHead ==
    /\ doc \in HeadDocs
    /\ \E p \in {0, DocLength(doc)} : sel = {Cursor(p)}
    /\ InitRest

NextHead == Build

SpecHead == InitHead /\ [][NextHead]_vars

\* C25: no two instructions of one build pass with non-empty ranges overlap:
\* the open-marker, hash and close-marker replacements are pairwise disjoint
\* or touch at an endpoint.
C25_ReplacementsDisjoint ==
    pc = "built" =>
        \A k, m \in 1..Len(decos) :
            (k # m /\ decos[k].from < decos[k].to
                   /\ decos[m].from < decos[m].to) =>
                \/ decos[k].to <= decos[m].from
                \/ decos[m].to <= decos[k].from

\* an indented heading-titled open line whose marker replacement and hash
\* replacement touch, followed by a close-marker replacement
C25_Witness ==
    /\ pc = "built"
    /\ \E x \in DecosOf("toggle"), y \in DecosOf("hash") :
          /\ x.line = y.line
          /\ x.from > LineFrom(doc, x.line)
          /\ x.to = y.from
          /\ \E z \in DecosOf("end") : z.line > x.line

----------------------------------------------------------------------------
(* Specification of the Space key: autoCloseKeymap, then the rebuild       *)

\* the two characters the handler looks for
BAR_ANGLE == <<"|", ">">>

\* const insertText
InsertText == <<" ", "\n", "\n", "<", "|">>

L_Bar == BAR_ANGLE

L_TextBar == <<"x">> \o BAR_ANGLE

L_BarInd == <<" ">> \o BAR_ANGLE

AutoLines == {L_Bar, L_TextBar, L_BarInd, L_Open, L_Plain}

AutoDocs == Docs(AutoLines, MaxLines)

InitAuto ==
    /\ doc \in AutoDocs
    /\ \E i \in 1..Len(doc) : sel = {Cursor(LineTo(doc, i))}
    /\ InitRest

\* ranges.length === 1, range.empty and
\* state.doc.sliceString(pos - 2, pos) === "|>" for pos = range.head
AutoCloseFires(d, s) ==
    /\ Cardinality(s) = 1
    /\ \A range \in s :
          /\ range.from = range.to
          /\ range.head >= 2
          /\ SubSeq(Flat(d), range.head - 1, range.head) = BAR_ANGLE

\* the document is replaced and the plugin rebuilds (update.docChanged)
KeyResult(d1, s1, to) ==
    /\ pc = "input"
    /\ pc' = to
    /\ doc' = d1
    /\ sel' = s1
    /\ validRanges' = ValidRanges(d1)
    /\ levels' = Levels(d1)
    /\ decos' = BuildDecorations(d1, s1, folded)
    /\ visits' = LineVisits(d1, s1)
    /\ UNCHANGED <<folded, foldRes, foldState, widgets, hist, clipboard, upd>>

\* Space with the handler returning true
AutoClose ==
    /\ AutoCloseFires(doc, sel)
    /\ \E range \in sel :
          LET pos == range.head
          IN  KeyResult(ApplyChange(doc, Change(pos, pos, InsertText)),
                        {Cursor(pos + 1)}, "closed")

\* Space with the handler returning false: the editor inserts the space
TypeSpace ==
    /\ ~AutoCloseFires(doc, sel)
    /\ \E range \in sel :
          KeyResult(ApplyChange(doc, Change(range.from, range.to, <<" ">>)),
                    {Cursor(range.from + 1)}, "spaced")

NextAuto == AutoClose \/ TypeSpace

SpecAuto == InitAuto /\ [][NextAuto]_vars

\* C30: after the auto-close handler has fired, the line being typed and the
\* inserted close line two lines below it are the open and the close line of
\* one Block.
C30_AutoCloseMakesBlock ==
    pc = "closed" =>
        \A range \in sel :
            LET i == LineAt(doc, range.head)
            IN  [start |-> i, end |-> i + 2] \in Blocks

====
